---- MODULE Spec2Model ----
(***************************************************************************)
(* A model of unisoc_pac_parser.py: the PAC archive header decoder, the    *)
(* entry table walk in main, single-partition extraction by identifier     *)
(* and export-all.                                                         *)
(*                                                                         *)
(* Bytes are integers 0..255 and a file is its length plus its non-zero    *)
(* bytes (every other byte below the length is 0).  Python integers are    *)
(* unbounded; the two 64-bit quantities the parser builds, (hi << 32) | lo,*)
(* are kept as two 32-bit limbs [hi, lo] so that no value is ever cut to   *)
(* the width of the model checker's integers.  Text is a sequence of code  *)
(* points.                                                                 *)
(*                                                                         *)
(* Left out: what --print, --header and --verbose write, the reserved and  *)
(* address arrays of the two records, identifiers that hold a path         *)
(* separator or an inner NUL, and sizes or offsets of 2^63 and above,      *)
(* which seek and read refuse with OverflowError.  The halves of the input *)
(* records stay below 2^31.                                                *)
(***************************************************************************)
EXTENDS Integers, Sequences, FiniteSets, TLC

VARIABLES
    file,                 \* the input file: [len, bytes]
    args,                 \* the parsed command line
    pc,                   \* where main is
    pac_header,           \* main's pac_header, once read
    num_headers_to_read,  \* main's num_headers_to_read
    i,                    \* the index of the walk's for loop
    offset,               \* main's offset
    headers,              \* main's headers
    exported,             \* how many headers the export loop has taken
    disk,                 \* the output directory: file name -> bytes
    stdout,               \* what was printed
    exc,                  \* the exception that ended the run, or None
    reads,                \* history: the reads the walk issued
    extractions           \* history: the extract_data calls that wrote a file

vars == <<file, args, pc, pac_header, num_headers_to_read, i, offset, headers,
          exported, disk, stdout, exc, reads, extractions>>

\* The largest nFileCount an input archive header declares; input files hold
\* up to MaxFileCount - 1 full entry records.
MaxFileCount == 3

\* main's "offset = 2124": where the entry table starts.
EntryTableOffset == 2124

\* Python's None.
None == "None"

Min(a, b) == IF a <= b THEN a ELSE b

Max(a, b) == IF a >= b THEN a ELSE b

(***************************************************************************)
(* struct: format strings, calcsize, unpack ('<': little-endian, packed).  *)
(***************************************************************************)

\* PacHeader.FORMAT = '<44sII512s512sIIIIIIII200sIII200I2H'
PacHeaderFORMAT ==
    << [n |-> 44, c |-> "s"], [n |-> 2, c |-> "I"], [n |-> 512, c |-> "s"],
       [n |-> 512, c |-> "s"], [n |-> 8, c |-> "I"], [n |-> 200, c |-> "s"],
       [n |-> 3, c |-> "I"], [n |-> 200, c |-> "I"], [n |-> 2, c |-> "H"] >>

\* Header.FORMAT = '<I512s512s504sIIIIIIII5I249I'
HeaderFORMAT ==
    << [n |-> 1, c |-> "I"], [n |-> 512, c |-> "s"], [n |-> 512, c |-> "s"],
       [n |-> 504, c |-> "s"], [n |-> 8, c |-> "I"], [n |-> 5, c |-> "I"],
       [n |-> 249, c |-> "I"] >>

\* Bytes of one item of a format code.
CodeWidth(c) == CASE c = "s" -> 1 [] c = "I" -> 4 [] c = "H" -> 2

RECURSIVE SizeFrom(_, _)
SizeFrom(fmt, j) ==
    IF j > Len(fmt) THEN 0
    ELSE fmt[j].n * CodeWidth(fmt[j].c) + SizeFrom(fmt, j + 1)

\* struct.calcsize(fmt)
calcsize(fmt) == SizeFrom(fmt, 1)

PacHeaderSIZE == calcsize(PacHeaderFORMAT)

HeaderSIZE == calcsize(HeaderFORMAT)

\* Where the k-th value (from 0) of struct.unpack(fmt, ...) lies: "<n>s" is one
\* value of n bytes, "<n>I" and "<n>H" are n values.
RECURSIVE Locate(_, _, _, _)
Locate(fmt, j, k, off) ==
    IF fmt[j].c = "s"
    THEN IF k = 0 THEN [off |-> off, n |-> fmt[j].n, c |-> "s"]
         ELSE Locate(fmt, j + 1, k - 1, off + fmt[j].n)
    ELSE IF k < fmt[j].n
         THEN [off |-> off + k * CodeWidth(fmt[j].c), n |-> CodeWidth(fmt[j].c),
               c |-> fmt[j].c]
         ELSE Locate(fmt, j + 1, k - fmt[j].n,
                     off + fmt[j].n * CodeWidth(fmt[j].c))

\* The little-endian unsigned integer in the n bytes of data after off.
RECURSIVE LittleEndian(_, _, _)
LittleEndian(data, off, n) ==
    IF n = 0 THEN 0
    ELSE data[off + 1] + 256 * LittleEndian(data, off + 1, n - 1)

\* unpacked_data[k] of struct.unpack(fmt, data).
Unpacked(fmt, data, k) ==
    LET loc == Locate(fmt, 1, k, 0)
    IN  IF loc.c = "s" THEN SubSeq(data, loc.off + 1, loc.off + loc.n)
        ELSE LittleEndian(data, loc.off, loc.n)

(***************************************************************************)
(* Codecs: bytes.decode('utf-16le'), bytes.decode('ascii'), str.strip.     *)
(* A decode yields [ok, text]; ok = FALSE is UnicodeDecodeError.           *)
(***************************************************************************)

IsHighSurrogate(u) == 55296 <= u /\ u <= 56319

IsLowSurrogate(u) == 56320 <= u /\ u <= 57343

IsSurrogate(u) == 55296 <= u /\ u <= 57343

\* The 16-bit code units of the bytes (a trailing odd byte left out).
CodeUnits(b) ==
    SubSeq([j \in 1..(Len(b) \div 2) |-> b[2 * j - 1] + 256 * b[2 * j]],
           1, Len(b) \div 2)

\* bytes.decode('utf-16le'), errors='strict': an odd byte count, a high
\* surrogate not followed by a low one and a low surrogate not preceded by a
\* high one raise UnicodeDecodeError; a surrogate pair is one code point.
DecodeUtf16le(b) ==
    LET u == CodeUnits(b)
        n == Len(u)
        sur == {j \in 1..n : IsSurrogate(u[j])}
        ok == /\ Len(b) % 2 = 0
              /\ \A j \in sur :
                    /\ IsHighSurrogate(u[j]) => (j < n /\ IsLowSurrogate(u[j + 1]))
                    /\ IsLowSurrogate(u[j]) => (j > 1 /\ IsHighSurrogate(u[j - 1]))
        cp == [j \in 1..n |->
                 IF IsLowSurrogate(u[j]) THEN -1
                 ELSE IF IsHighSurrogate(u[j])
                      THEN 65536 + (u[j] - 55296) * 1024 + (u[j + 1] - 56320)
                      ELSE u[j]]
    IN  IF ~ok THEN [ok |-> FALSE, text |-> <<>>]
        ELSE IF sur = {} THEN [ok |-> TRUE, text |-> u]
        ELSE [ok |-> TRUE, text |-> SelectSeq(cp, LAMBDA c : c # -1)]

\* bytes.decode('ascii'), errors='strict': a byte above 127 raises.
DecodeAscii(b) ==
    IF \A j \in 1..Len(b) : b[j] < 128 THEN [ok |-> TRUE, text |-> b]
    ELSE [ok |-> FALSE, text |-> <<>>]

\* bytes.decode('ascii', errors='ignore'): bytes above 127 are dropped.
DecodeAsciiIgnore(b) == [ok |-> TRUE, text |-> SelectSeq(b, LAMBDA x : x < 128)]

\* str.strip('\x00'): leading and trailing NULs removed.
StripNul(s) ==
    LET nz == {j \in 1..Len(s) : s[j] # 0}
    IN  IF nz = {} THEN <<>>
        ELSE SubSeq(s, CHOOSE a \in nz : \A x \in nz : a <= x,
                       CHOOSE z \in nz : \A x \in nz : z >= x)

(***************************************************************************)
(* The open file: seek and read.                                           *)
(***************************************************************************)

\* The byte of file f at offset o < f.len.
ByteAt(f, o) == IF o \in DOMAIN f.bytes THEN f.bytes[o] ELSE 0

\* How many bytes file.read(n) returns at position p: never past end-of-file.
Available(f, p, n) == Min(n, Max(0, f.len - p))

\* file.seek(p); file.read(n): the bytes, as a sequence.
ReadAt(f, p, n) ==
    LET got == Available(f, p, n)
        set == DOMAIN f.bytes
    IN  SubSeq([j \in 1..got |-> IF p + j - 1 \in set THEN f.bytes[p + j - 1] ELSE 0],
               1, got)

(***************************************************************************)
(* Python integers of up to 64 bits, as two 32-bit limbs.                  *)
(***************************************************************************)

\* The Python integer w, for 0 <= w < 2^32.
PyInt(w) == [hi |-> 0, lo |-> w]

\* w << 32, for 0 <= w < 2^32.
ShiftLeft32(w) == [hi |-> w, lo |-> 0]

\* a | b on naturals.
RECURSIVE BitOr(_, _)
BitOr(a, b) ==
    IF a = 0 THEN b
    ELSE IF b = 0 THEN a
    ELSE (IF a % 2 = 1 \/ b % 2 = 1 THEN 1 ELSE 0) + 2 * BitOr(a \div 2, b \div 2)

\* x | y on Python integers.
PyOr(x, y) == [hi |-> BitOr(x.hi, y.hi), lo |-> BitOr(x.lo, y.lo)]

\* file.seek(p); file.read(n) for Python integers p and n: a position at or
\* past end-of-file reads nothing, a size past end-of-file reads what is left.
ReadAtPy(f, p, n) ==
    IF p.hi > 0 THEN <<>>
    ELSE ReadAt(f, p.lo, IF n.hi > 0 THEN f.len ELSE n.lo)

(***************************************************************************)
(* PacHeader and Header: the decoded records.  A constructor yields        *)
(* [kind, value]: kind "ok" with the object, or the exception it raises.   *)
(***************************************************************************)

\* PacHeader.__init__ (the reserved array is decoded and never used).
PacHeader(data) ==
    LET szVersion == DecodeUtf16le(Unpacked(PacHeaderFORMAT, data, 0))
        szPrdName == DecodeUtf16le(Unpacked(PacHeaderFORMAT, data, 3))
        szPrdVersion == DecodeUtf16le(Unpacked(PacHeaderFORMAT, data, 4))
        dwOmaDmProductFlag == DecodeAscii(Unpacked(PacHeaderFORMAT, data, 13))
    IN  IF szVersion.ok /\ szPrdName.ok /\ szPrdVersion.ok /\ dwOmaDmProductFlag.ok
        THEN [kind |-> "ok",
              value |->
                [szVersion |-> StripNul(szVersion.text),
                 dwHiSize |-> Unpacked(PacHeaderFORMAT, data, 1),
                 dwLoSize |-> Unpacked(PacHeaderFORMAT, data, 2),
                 szPrdName |-> StripNul(szPrdName.text),
                 szPrdVersion |-> StripNul(szPrdVersion.text),
                 nFileCount |-> Unpacked(PacHeaderFORMAT, data, 5),
                 dwFileOffset |-> Unpacked(PacHeaderFORMAT, data, 6),
                 dwMode |-> Unpacked(PacHeaderFORMAT, data, 7),
                 dwFlashType |-> Unpacked(PacHeaderFORMAT, data, 8),
                 dwNandStrategy |-> Unpacked(PacHeaderFORMAT, data, 9),
                 dwIsNvBackup |-> Unpacked(PacHeaderFORMAT, data, 10),
                 dwNandPageType |-> Unpacked(PacHeaderFORMAT, data, 11),
                 szPrdAlias |-> Unpacked(PacHeaderFORMAT, data, 12),
                 dwOmaDmProductFlag |-> StripNul(dwOmaDmProductFlag.text),
                 dwIsOmaDM |-> Unpacked(PacHeaderFORMAT, data, 14),
                 dwIsPreload |-> Unpacked(PacHeaderFORMAT, data, 15),
                 dwMagic |-> Unpacked(PacHeaderFORMAT, data, 216),
                 wCRC1 |-> Unpacked(PacHeaderFORMAT, data, 217),
                 wCRC2 |-> Unpacked(PacHeaderFORMAT, data, 218)]]
        ELSE [kind |-> "UnicodeDecodeError", value |-> None]

\* unpacked_data[4]: the field Header.__init__ stores as dwHiFileSize.
HiFileSizeOf(data) == Unpacked(HeaderFORMAT, data, 4)

\* unpacked_data[5]: the field Header.__init__ stores as dwHiDataOffset.
HiDataOffsetOf(data) == Unpacked(HeaderFORMAT, data, 5)

\* unpacked_data[6]: the field Header.__init__ stores as dwLoFileSize.
LoFileSizeOf(data) == Unpacked(HeaderFORMAT, data, 6)

\* unpacked_data[9]: the field Header.__init__ stores as dwLoDataOffset.
LoDataOffsetOf(data) == Unpacked(HeaderFORMAT, data, 9)

\* Header.__init__ (the dwAddr and dwReserved arrays are decoded and never used).
Header(data) ==
    LET szFileID == DecodeUtf16le(Unpacked(HeaderFORMAT, data, 1))
        szFileName == DecodeUtf16le(Unpacked(HeaderFORMAT, data, 2))
        szFileVersion == DecodeAsciiIgnore(Unpacked(HeaderFORMAT, data, 3))
    IN  IF szFileID.ok /\ szFileName.ok
        THEN [kind |-> "ok",
              value |->
                [dwSize |-> Unpacked(HeaderFORMAT, data, 0),
                 szFileID |-> StripNul(szFileID.text),
                 szFileName |-> StripNul(szFileName.text),
                 szFileVersion |-> StripNul(szFileVersion.text),
                 dwHiFileSize |-> HiFileSizeOf(data),
                 dwHiDataOffset |-> HiDataOffsetOf(data),
                 dwLoFileSize |-> LoFileSizeOf(data),
                 nFileFlag |-> Unpacked(HeaderFORMAT, data, 7),
                 nCheckFlag |-> Unpacked(HeaderFORMAT, data, 8),
                 dwLoDataOffset |-> LoDataOffsetOf(data),
                 dwCanOmitFlag |-> Unpacked(HeaderFORMAT, data, 10),
                 dwAddrNum |-> Unpacked(HeaderFORMAT, data, 11)]]
        ELSE [kind |-> "UnicodeDecodeError", value |-> None]

\* The size cut to its low 32 bits.
nFileSize_LowHalf(h) == PyInt(h.dwLoFileSize)

\* Header.nFileSize
nFileSize(h) == PyOr(ShiftLeft32(h.dwHiFileSize), PyInt(h.dwLoFileSize))

\* Header.dwDataOffset
dwDataOffset(h) == PyOr(ShiftLeft32(h.dwHiDataOffset), PyInt(h.dwLoDataOffset))

\* read_pac_header: kind "None" for a short read, else PacHeader's result.
read_pac_header(f) ==
    LET data == ReadAt(f, 0, PacHeaderSIZE)
    IN  IF Len(data) # PacHeaderSIZE THEN [kind |-> "None", value |-> None]
        ELSE PacHeader(data)

\* read_header: kind "None" for a short read, else Header's result.
read_header(f, off) ==
    LET data == ReadAt(f, off, HeaderSIZE)
    IN  IF Len(data) # HeaderSIZE THEN [kind |-> "None", value |-> None]
        ELSE Header(data)

\* extract_data without its file.seek(offset): the read starts at 0.
extract_data_NoSeek(f, d, off, size, filename) ==
    LET data == ReadAtPy(f, PyInt(0), size)
    IN  IF filename = <<>> THEN [exc |-> "IsADirectoryError", disk |-> d]
        ELSE [exc |-> None,
              disk |-> [x \in DOMAIN d \cup {filename} |->
                          IF x = filename THEN data ELSE d[x]]]

\* extract_data: the output directory after the call, or the exception open()
\* raises. os.path.join(output_dir, '') is the directory itself, and opening
\* it for writing raises IsADirectoryError; any other name is created or
\* truncated and holds the bytes read.
extract_data(f, d, off, size, filename) ==
    LET data == ReadAtPy(f, off, size)
    IN  IF filename = <<>> THEN [exc |-> "IsADirectoryError", disk |-> d]
        ELSE [exc |-> None,
              disk |-> [x \in DOMAIN d \cup {filename} |->
                          IF x = filename THEN data ELSE d[x]]]

(***************************************************************************)
(* Input files.  An archive is the header, k full entry records and a      *)
(* payload tail; the images below are sets of <<offset, byte>>.            *)
(***************************************************************************)

\* The byte offset of the k-th unpacked value of a format.
FieldOffset(fmt, k) == Locate(fmt, 1, k, 0).off

\* v as n little-endian bytes at off.
IntImage(off, v, n) == {<<off + b, (v \div (256 ^ b)) % 256>> : b \in 0..(n - 1)}

\* Code units as UTF-16LE bytes at off.
Utf16Image(off, units) ==
    UNION {{<<off + 2 * (j - 1), units[j] % 256>>,
            <<off + 2 * (j - 1) + 1, units[j] \div 256>>} : j \in 1..Len(units)}

\* Bytes at off.
BytesImage(off, b) == {<<off + j - 1, b[j]>> : j \in 1..Len(b)}

\* An archive header at offset 0.
PacHeaderImage(h) ==
    Utf16Image(FieldOffset(PacHeaderFORMAT, 0), h.szVersion)
    \cup Utf16Image(FieldOffset(PacHeaderFORMAT, 3), h.szPrdName)
    \cup Utf16Image(FieldOffset(PacHeaderFORMAT, 4), h.szPrdVersion)
    \cup IntImage(FieldOffset(PacHeaderFORMAT, 5), h.nFileCount, 4)
    \cup IntImage(FieldOffset(PacHeaderFORMAT, 6), h.dwFileOffset, 4)
    \cup BytesImage(FieldOffset(PacHeaderFORMAT, 13), h.dwOmaDmProductFlag)

\* An entry record at offset at.
HeaderImage(at, e) ==
    IntImage(at + FieldOffset(HeaderFORMAT, 0), HeaderSIZE, 4)
    \cup Utf16Image(at + FieldOffset(HeaderFORMAT, 1), e.szFileID)
    \cup Utf16Image(at + FieldOffset(HeaderFORMAT, 2), e.szFileName)
    \cup BytesImage(at + FieldOffset(HeaderFORMAT, 3), e.szFileVersion)
    \cup IntImage(at + FieldOffset(HeaderFORMAT, 4), e.dwHiFileSize, 4)
    \cup IntImage(at + FieldOffset(HeaderFORMAT, 5), e.dwHiDataOffset, 4)
    \cup IntImage(at + FieldOffset(HeaderFORMAT, 6), e.dwLoFileSize, 4)
    \cup IntImage(at + FieldOffset(HeaderFORMAT, 9), e.dwLoDataOffset, 4)

\* The file of length len holding an image.
MkFile(len, image) ==
    LET kept == {p \in image : p[1] < len /\ p[2] # 0}
    IN  [len |-> len,
         bytes |-> [o \in {p[1] : p \in kept} |-> (CHOOSE p \in kept : p[1] = o)[2]]]

\* The payload tails of the input files: none, or the six bytes "ABCDEF".
Tails == {<<>>, <<65, 66, 67, 68, 69, 70>>}

\* Identifiers: "A", "B", "N", "X" and the empty string.
IdA == <<65>>

IdB == <<66>>

IdN == <<78>>

IdX == <<88>>

Blank == <<>>

\* The entry records of the input files, for a payload that starts at base:
\* a payload inside the file, an offset with a high half, an empty payload, a
\* record with both identifiers blank, and a size with a high half under a
\* name that UTF-16 stores as a surrogate pair (U+1F600); two of them share a
\* name with a third whose id is that name.
EntryKinds(base) ==
    { [szFileID |-> IdA, szFileName |-> IdN, szFileVersion |-> <<49>>,
       dwHiFileSize |-> 0, dwLoFileSize |-> 3,
       dwHiDataOffset |-> 0, dwLoDataOffset |-> base + 1],
      [szFileID |-> IdB, szFileName |-> IdN, szFileVersion |-> <<200, 50>>,
       dwHiFileSize |-> 0, dwLoFileSize |-> 5,
       dwHiDataOffset |-> 2147483647, dwLoDataOffset |-> 0],
      [szFileID |-> IdN, szFileName |-> IdN, szFileVersion |-> <<>>,
       dwHiFileSize |-> 0, dwLoFileSize |-> 0,
       dwHiDataOffset |-> 0, dwLoDataOffset |-> base + 2],
      [szFileID |-> Blank, szFileName |-> Blank, szFileVersion |-> <<>>,
       dwHiFileSize |-> 0, dwLoFileSize |-> 4,
       dwHiDataOffset |-> 0, dwLoDataOffset |-> 0],
      [szFileID |-> Blank, szFileName |-> <<55357, 56832>>, szFileVersion |-> <<>>,
       dwHiFileSize |-> 1, dwLoFileSize |-> 2147483647,
       dwHiDataOffset |-> 0, dwLoDataOffset |-> base + 2] }

\* A record whose file id is a lone low surrogate.
BadIdRecord ==
    [szFileID |-> <<56320>>, szFileName |-> IdN, szFileVersion |-> <<>>,
     dwHiFileSize |-> 0, dwLoFileSize |-> 1,
     dwHiDataOffset |-> 0, dwLoDataOffset |-> 0]

\* A well-formed archive header declaring n entries.
GoodPacHeader(n) ==
    [szVersion |-> <<66, 80>>, szPrdName |-> <<80, 0, 81>>, szPrdVersion |-> <<49>>,
     nFileCount |-> n, dwFileOffset |-> PacHeaderSIZE,
     dwOmaDmProductFlag |-> <<>>]

\* The archive with header h, the records recs and the payload tail.
Archive(h, recs, tail) ==
    LET base == PacHeaderSIZE + Len(recs) * HeaderSIZE
    IN  MkFile(base + Len(tail),
               PacHeaderImage(h)
               \cup UNION {HeaderImage(PacHeaderSIZE + (j - 1) * HeaderSIZE, recs[j]) :
                             j \in 1..Len(recs)}
               \cup BytesImage(base, tail))

\* Archives with well-formed headers: every declared count against every
\* number of records present.
NormalFiles ==
    UNION {{Archive(GoodPacHeader(n), recs, tail) :
              n \in 0..MaxFileCount,
              recs \in [1..k -> EntryKinds(PacHeaderSIZE + k * HeaderSIZE)],
              tail \in Tails} : k \in 0..(MaxFileCount - 1)}

\* One record and a payload, for the archives below.
OneRecord == <<CHOOSE e \in EntryKinds(PacHeaderSIZE + HeaderSIZE) : e.szFileID = IdB>>

\* Archives cut inside the header, with malformed header text, with malformed
\* text in an entry record, and with a dwFileOffset field that is not the size
\* of the archive header.
SpecialFiles ==
    { [len |-> 0, bytes |-> <<>>],
      MkFile(PacHeaderSIZE - 1, PacHeaderImage(GoodPacHeader(1))),
      Archive([GoodPacHeader(1) EXCEPT !.szVersion = <<55296, 65>>], OneRecord, <<65>>),
      Archive([GoodPacHeader(1) EXCEPT !.szPrdName = <<56320>>], OneRecord, <<65>>),
      Archive([GoodPacHeader(1) EXCEPT !.szPrdVersion = <<65, 55296>>], OneRecord, <<65>>),
      Archive([GoodPacHeader(1) EXCEPT !.dwOmaDmProductFlag = <<200>>], OneRecord, <<65>>),
      Archive(GoodPacHeader(2), OneRecord \o <<BadIdRecord>>, <<65>>),
      Archive(GoodPacHeader(1), <<[BadIdRecord EXCEPT !.szFileID = IdA,
                                                      !.szFileName = <<65, 55296>>]>>,
              <<>>),
      Archive([GoodPacHeader(2) EXCEPT !.dwFileOffset = 0], OneRecord, <<65>>),
      Archive([GoodPacHeader(2) EXCEPT !.dwFileOffset = PacHeaderSIZE + HeaderSIZE],
              OneRecord, <<65>>) }

InputFiles == NormalFiles \cup SpecialFiles

\* args.extract: None, or the string given to --extract.
NoExtract == [none |-> TRUE, s |-> <<>>]

\* Command lines: --extract with an identifier or without, --export or not;
\* other stands for --print, --header and --verbose, which change no state.
\* --export comes alone or after the extraction of "A".
InputArgs ==
    {a \in [extract : {NoExtract} \cup
                      {[none |-> FALSE, s |-> s] : s \in {Blank, IdA, IdB, IdN, IdX}},
            export : BOOLEAN, other : BOOLEAN] :
        /\ a.other => (a.extract.none /\ ~a.export)
        /\ a.export => (a.extract.none \/ a.extract.s = IdA)}

\* Python's truth value of args.extract.
Truthy(a) == ~a.none /\ a.s # <<>>

\* A line of output.
Line(msg, id) == [msg |-> msg, id |-> id]

Init ==
    /\ file \in InputFiles
    /\ args \in InputArgs
    /\ pc = "main"
    /\ pac_header = [kind |-> "unbound", value |-> None]
    /\ num_headers_to_read = 0
    /\ i = 0
    /\ offset = EntryTableOffset
    /\ headers = <<>>
    /\ exported = 0
    /\ disk = <<>>
    /\ stdout = <<>>
    /\ exc = None
    /\ reads = <<>>
    /\ extractions = <<>>

(***************************************************************************)
(* main                                                                    *)
(***************************************************************************)

\* len(sys.argv) <= 2: no option was given; print_help and sys.exit(1).
Usage ==
    /\ pc = "main"
    /\ args.extract.none /\ ~args.export /\ ~args.other
    /\ pc' = "sys.exit(1)"
    /\ stdout' = Append(stdout, Line("help", <<>>))
    /\ UNCHANGED <<file, args, pac_header, num_headers_to_read, i, offset, headers,
                   exported, disk, exc, reads, extractions>>

\* open(file_path, 'rb'), read_pac_header, and num_headers_to_read.
ReadPacHeader ==
    /\ pc = "main"
    /\ ~(args.extract.none /\ ~args.export /\ ~args.other)
    /\ LET r == read_pac_header(file)
       IN  /\ pac_header' = r
           /\ IF r.kind = "None"
              THEN /\ stdout' = Append(stdout, Line("PAC header is not valid", <<>>))
                   /\ pc' = "return"
                   /\ UNCHANGED <<exc, num_headers_to_read>>
              ELSE IF r.kind = "ok"
              THEN /\ num_headers_to_read' = r.value.nFileCount
                   /\ pc' = "walk"
                   /\ UNCHANGED <<exc, stdout>>
              ELSE /\ exc' = r.kind
                   /\ pc' = "raise"
                   /\ UNCHANGED <<stdout, num_headers_to_read>>
    /\ UNCHANGED <<file, args, i, offset, headers, exported, disk, reads, extractions>>

\* A loop that runs once more than range(n) does.
HasNext_OneMore(j, n) == j <= n

\* "for i in range(n)" has a next value after j iterations.
HasNext(j, n) == j < n

\* "continue" in the place of "break".
OnShortRead_Continue(j) == [pc |-> "walk", i |-> j + 1]

\* "if not header: print(...); break": the loop ends, its index stays.
OnShortRead(j) == [pc |-> "extract", i |-> j]

\* The offset advanced by the size of the other record.
NextOffset_PacHeaderSize(off) == off + PacHeaderSIZE

\* offset += Header.SIZE
NextOffset(off) == off + HeaderSIZE

\* One iteration of "for i in range(num_headers_to_read)".
WalkStep ==
    /\ pc = "walk"
    /\ HasNext(i, num_headers_to_read)
    /\ LET header == read_header(file, offset)
       IN  /\ reads' = Append(reads, [at |-> offset, want |-> HeaderSIZE,
                                      got |-> Available(file, offset, HeaderSIZE)])
           /\ IF header.kind = "None"
              THEN /\ stdout' = Append(stdout,
                          Line("No more headers found or file too short.", <<>>))
                   /\ pc' = OnShortRead(i).pc
                   /\ i' = OnShortRead(i).i
                   /\ UNCHANGED <<headers, offset, exc>>
              ELSE IF header.kind = "ok"
              THEN /\ headers' = Append(headers, header.value)
                   /\ offset' = NextOffset(offset)
                   /\ i' = i + 1
                   /\ UNCHANGED <<pc, stdout, exc>>
              ELSE /\ exc' = header.kind
                   /\ pc' = "raise"
                   /\ UNCHANGED <<headers, offset, i, stdout>>
    /\ UNCHANGED <<file, args, pac_header, num_headers_to_read, exported, disk,
                   extractions>>

\* range(num_headers_to_read) is exhausted.
WalkEnd ==
    /\ pc = "walk"
    /\ ~HasNext(i, num_headers_to_read)
    /\ pc' = "extract"
    /\ UNCHANGED <<file, args, pac_header, num_headers_to_read, i, offset, headers,
                   exported, disk, stdout, exc, reads, extractions>>

\* Only the file id compared.
Matches_IdOnly(header, s) == header.szFileID = s

\* header.szFileID == args.extract or header.szFileName == args.extract
Matches(header, s) == header.szFileID = s \/ header.szFileName = s

\* A loop without its "break": the last matching header wins.
FirstMatch_Last(hs, s) ==
    LET m == {j \in 1..Len(hs) : Matches(hs[j], s)}
    IN  IF m = {} THEN 0 ELSE CHOOSE j \in m : \A j2 \in m : j >= j2

\* The index of the header the loop of "if args.extract:" stops at, 0 if none.
FirstMatch(hs, s) ==
    LET m == {j \in 1..Len(hs) : Matches(hs[j], s)}
    IN  IF m = {} THEN 0 ELSE CHOOSE j \in m : \A j2 \in m : j <= j2

\* "if args.extract:" with its for ... else.
ExtractPartition ==
    /\ pc = "extract"
    /\ IF Truthy(args.extract)
       THEN LET j == FirstMatch(headers, args.extract.s)
            IN  IF j = 0
                THEN /\ stdout' = Append(stdout, Line("not found", args.extract.s))
                     /\ pc' = "export"
                     /\ UNCHANGED <<disk, exc, extractions>>
                ELSE LET header == headers[j]
                         identifier == IF header.szFileID = args.extract.s
                                       THEN header.szFileID ELSE header.szFileName
                         r == extract_data(file, disk, dwDataOffset(header),
                                           nFileSize(header), identifier)
                     IN  IF r.exc = None
                         THEN /\ disk' = r.disk
                              /\ extractions' = Append(extractions,
                                     [header |-> j, filename |-> identifier])
                              /\ stdout' = Append(stdout, Line("Extracted", identifier))
                              /\ pc' = "export"
                              /\ UNCHANGED exc
                         ELSE /\ exc' = r.exc
                              /\ pc' = "raise"
                              /\ UNCHANGED <<disk, extractions, stdout>>
       ELSE /\ pc' = "export"
            /\ UNCHANGED <<disk, exc, extractions, stdout>>
    /\ UNCHANGED <<file, args, pac_header, num_headers_to_read, i, offset, headers,
                   exported, reads>>

\* One iteration of the loop of "if args.export:".
ExportStep ==
    /\ pc = "export"
    /\ args.export
    /\ exported < Len(headers)
    /\ LET header == headers[exported + 1]
           identifier == IF header.szFileID # <<>>
                         THEN header.szFileID ELSE header.szFileName
           r == extract_data(file, disk, dwDataOffset(header), nFileSize(header),
                             identifier)
       IN  IF r.exc = None
           THEN /\ disk' = r.disk
                /\ extractions' = Append(extractions,
                       [header |-> exported + 1, filename |-> identifier])
                /\ stdout' = Append(stdout, Line("Exported", identifier))
                /\ exported' = exported + 1
                /\ UNCHANGED <<pc, exc>>
           ELSE /\ exc' = r.exc
                /\ pc' = "raise"
                /\ UNCHANGED <<disk, extractions, stdout, exported>>
    /\ UNCHANGED <<file, args, pac_header, num_headers_to_read, i, offset, headers,
                   reads>>

\* No export was asked for, or its loop is exhausted: the file is closed.
Return ==
    /\ pc = "export"
    /\ ~args.export \/ exported >= Len(headers)
    /\ pc' = "return"
    /\ UNCHANGED <<file, args, pac_header, num_headers_to_read, i, offset, headers,
                   exported, disk, stdout, exc, reads, extractions>>

Next ==
    \/ Usage
    \/ ReadPacHeader
    \/ WalkStep
    \/ WalkEnd
    \/ ExtractPartition
    \/ ExportStep
    \/ Return

Spec == Init /\ [][Next]_vars

(***************************************************************************)
(* Properties.                                                             *)
(***************************************************************************)

\* The walk has started: the archive header was read and decoded.
Walking == pac_header.kind = "ok"

\* The full entry records between the entry table offset and end-of-file.
RecordsThatFit == (file.len - 2124) \div 2580

\* The last read of the walk returned fewer bytes than a record.
WalkCutShort == reads # <<>> /\ reads[Len(reads)].got < 2580

\* C1: the walk decodes at most min(entry_count, floor((file_len -
\* table_offset) / ENTRY_RECORD_SIZE)) entries, and no read it issues returns
\* bytes beyond end-of-file.
C1_WalkBounded ==
    Walking =>
        /\ Len(headers) <= Min(pac_header.value.nFileCount, RecordsThatFit)
        /\ \A q \in 1..Len(reads) :
              /\ reads[q].got <= reads[q].want
              /\ reads[q].got > 0 => reads[q].at + reads[q].got <= file.len

\* C1's case: the file ends before the declared count, and the walk took
\* every record that fits.
C1_Witness ==
    /\ pc = "extract"
    /\ RecordsThatFit = 2
    /\ pac_header.value.nFileCount = 3
    /\ Len(headers) = 2
    /\ Len(reads) = 3

\* C2: a short record read ends the walk at once: it is the last read, no
\* exception is raised, and the entries kept are the full records before
\* end-of-file, in table order.
C2_ShortReadEndsWalk ==
    /\ \A q \in 1..(Len(reads) - 1) : reads[q].got = 2580
    /\ WalkCutShort =>
          /\ pc # "walk"
          /\ exc # "UnicodeDecodeError"
          /\ Len(headers) = Len(reads) - 1
          /\ Len(headers) = RecordsThatFit
          /\ pc = "extract" =>
                /\ exc = None
                /\ \A j \in 1..Len(headers) :
                      headers[j] = Header(ReadAt(file, 2124 + (j - 1) * 2580, 2580)).value

\* C2's scenario: entry_count = 3, two full records before end-of-file, a
\* partial third; two entries are decoded.
C2_Witness ==
    /\ pc = "extract"
    /\ WalkCutShort
    /\ reads[Len(reads)].got > 0
    /\ pac_header.value.nFileCount = 3
    /\ Len(headers) = 2
    /\ exc = None

\* The unsigned 32-bit little-endian word of the file at offset o.
Word32At(o) ==
    ByteAt(file, o) + 256 * ByteAt(file, o + 1) + 65536 * ByteAt(file, o + 2)
    + 16777216 * ByteAt(file, o + 3)

\* C8: a decoded entry's size is (file_size_hi << 32) | file_size_lo and its
\* offset (data_offset_hi << 32) | data_offset_lo, not cut to 32 bits, each
\* half from its own field of the record: the words at bytes 1532 and 1540
\* (size) and 1536 and 1552 (offset) of the record.
C8_SizeAndOffset64 ==
    \A j \in 1..Len(headers) :
        LET at == 2124 + (j - 1) * 2580
        IN  /\ nFileSize(headers[j]) =
                  [hi |-> Word32At(at + 1532), lo |-> Word32At(at + 1540)]
            /\ dwDataOffset(headers[j]) =
                  [hi |-> Word32At(at + 1536), lo |-> Word32At(at + 1552)]

\* C8's cases: decoded entries with a high half of zero and above zero, in
\* the size and in the offset.
C8_Witness ==
    /\ \E j \in 1..Len(headers) :
          nFileSize(headers[j]).hi > 0 /\ dwDataOffset(headers[j]).hi = 0
    /\ \E j \in 1..Len(headers) :
          nFileSize(headers[j]).hi = 0 /\ dwDataOffset(headers[j]).hi > 0

\* C9 as stated: the q-th record is read at the archive header's
\* dwFileOffset plus (q - 1) record sizes.
C9_ReadsAtHeaderOffset ==
    Walking => \A q \in 1..Len(reads) :
        reads[q].at = pac_header.value.dwFileOffset + (q - 1) * 2580

\* C9, amended: the q-th record is read at 2124 plus (q - 1) record sizes,
\* whatever the archive header's dwFileOffset says, in increasing order.
C9_ReadsAtFixedOffset ==
    /\ \A q \in 1..Len(reads) : reads[q].at = 2124 + (q - 1) * 2580
    /\ \A q \in 1..(Len(reads) - 1) : reads[q].at < reads[q + 1].at

\* C9's case: two reads of an archive whose header names another offset.
C9_Witness ==
    /\ Len(reads) = 2
    /\ pac_header.value.dwFileOffset # 2124

\* The extraction by identifier has just ended without an exception, and no
\* export has written yet.
Extracted == pc = "export" /\ exported = 0

\* What C3 says of an extraction that was requested: the first entry in table
\* order whose file id or file name is the identifier is the one entry
\* extracted, under that name; with no such entry "not found" is printed and
\* nothing is written.
C3_Holds(requested) ==
    LET s == args.extract.s
        m == {j \in 1..Len(headers) :
                headers[j].szFileID = s \/ headers[j].szFileName = s}
    IN  (Extracted /\ requested) =>
            IF m = {}
            THEN /\ DOMAIN disk = {}
                 /\ extractions = <<>>
                 /\ Len(stdout) > 0
                 /\ stdout[Len(stdout)] = [msg |-> "not found", id |-> s]
            ELSE \E j \in m :
                    /\ \A j2 \in m : j <= j2
                    /\ extractions = <<[header |-> j, filename |-> s]>>
                    /\ DOMAIN disk = {s}
                    /\ disk[s] = ReadAtPy(file, dwDataOffset(headers[j]),
                                          nFileSize(headers[j]))
                    /\ Len(stdout) > 0
                    /\ stdout[Len(stdout)] = [msg |-> "Extracted", id |-> s]

SharedNameLookup(s) ==
    \E a, b \in 1..Len(headers) :
        /\ headers[a].szFileName = headers[b].szFileName
        /\ headers[a].szFileID # headers[b].szFileID
        /\ headers[a].szFileID = s

\* The entry extracted carries the file id s.
SelectsCarrier(s) ==
    /\ Len(extractions) = 1
    /\ headers[extractions[1].header].szFileID = s

SizeExceedsFile(h) ==
    \/ nFileSize(h).hi > 0
    \/ /\ nFileSize(h).lo > 0
       /\ \/ dwDataOffset(h).hi > 0
          \/ dwDataOffset(h).lo + nFileSize(h).lo > file.len

\* The payload of entry h lies inside the file.
PayloadInFile(h) ==
    /\ nFileSize(h).hi = 0
    /\ dwDataOffset(h).hi = 0
    /\ dwDataOffset(h).lo + nFileSize(h).lo <= file.len

\* C5: an extraction whose size exceeds what the file holds reports
\* ShortRead.
C5_ShortReadReported ==
    \A q \in 1..Len(extractions) :
        SizeExceedsFile(headers[extractions[q].header]) =>
            \/ exc = "ShortRead"
            \/ \E l \in 1..Len(stdout) :
                  stdout[l] = [msg |-> "ShortRead", id |-> extractions[q].filename]

\* The other half of C5, which holds: the file the last such extraction
\* leaves holds the bytes from the offset to end-of-file.
ShortExtractionKeepsAvailable ==
    extractions # <<>> =>
        LET last == extractions[Len(extractions)]
            h == headers[last.header]
        IN  (SizeExceedsFile(h) /\ dwDataOffset(h).hi = 0) =>
                /\ Len(disk[last.filename]) = Max(0, file.len - dwDataOffset(h).lo)
                /\ \A b \in 1..Len(disk[last.filename]) :
                      disk[last.filename][b] = ByteAt(file, dwDataOffset(h).lo + b - 1)

\* C6: an extraction of an entry whose payload lies inside the file leaves a
\* file of exactly effective_size bytes, the file's bytes from
\* effective_offset on; of size 0, an empty file.
C6_ExactPayload ==
    extractions # <<>> =>
        LET last == extractions[Len(extractions)]
            h == headers[last.header]
        IN  PayloadInFile(h) =>
                /\ last.filename \in DOMAIN disk
                /\ Len(disk[last.filename]) = h.dwLoFileSize
                /\ \A b \in 1..h.dwLoFileSize :
                      disk[last.filename][b] = ByteAt(file, h.dwLoDataOffset + b - 1)

\* C6's cases: a payload of three bytes inside the file was written as "BCD",
\* and an empty payload as an empty file.
C6_Witness ==
    /\ extractions # <<>>
    /\ PayloadInFile(headers[extractions[Len(extractions)].header])
    /\ IdA \in DOMAIN disk /\ disk[IdA] = <<66, 67, 68>>
    /\ IdN \in DOMAIN disk /\ disk[IdN] = <<>>

\* C7: in an export, every entry gets a destination name, and no entry is
\* written over the file of an earlier one.
C7_ExportKeepsEveryFile ==
    (args.extract.none /\ args.export) =>
        /\ exc # "IsADirectoryError"
        /\ \A p, q \in 1..Len(extractions) :
              p # q => extractions[p].filename # extractions[q].filename

\* One of the three UTF-16 text fields of the archive header is malformed.
MalformedHeaderText ==
    \/ ~DecodeUtf16le(ReadAt(file, 0, 44)).ok
    \/ ~DecodeUtf16le(ReadAt(file, 52, 512)).ok
    \/ ~DecodeUtf16le(ReadAt(file, 564, 512)).ok

\* C10: an archive header of the full size with malformed UTF-16 text is
\* decoded all the same, and the run goes on to the walk.
C10_MalformedTextDecodes ==
    (pc # "main" /\ file.len >= 2124 /\ MalformedHeaderText) =>
        /\ pac_header.kind = "ok"
        /\ exc = None

====
